---------------------------- MODULE Spec2Model ----------------------------
(***************************************************************************)
(* Client-side sensor-series aggregation of the dashboard:                 *)
(*   DashboardTab.js   dataByParameter (Grouper), parameters               *)
(*   useAIDashboard.js computeStats (Statistics Computer) and the insights *)
(*                     map (Insight Formatter),                            *)
(* the live-update channel and the loaders of the tab:                     *)
(*   websocketService.js  connect, disconnect, subscribe, on, off, emit    *)
(*   DashboardTab.js      the 'sensor_data' effect, loadData,              *)
(*                        loadForecasts, loadAnomalies and                 *)
(*                        handleTrainAutoencoder.                          *)
(* Cyrillic string literals of the source are written transliterated,      *)
(* because the module has to be plain ASCII.                               *)
(***************************************************************************)
EXTENDS Integers, Sequences, FiniteSets, TLC

(***************************************************************************)
(* Bounds of the explored inputs.                                          *)
(***************************************************************************)
MaxLen == 2        \* longest series of the mixed-value input family
MaxTrendLen == 9   \* longest series of the long-series input family
MaxGroupLen == 3   \* longest reading list of the grouping input family
MaxOrderLen == 3   \* longest series of the timestamped input family
MaxRenders == 2    \* renders of the tab (calls of the hook) on one input

(***************************************************************************)
(* JavaScript Number arithmetic.  A Number is an IEEE-754 binary float:    *)
(* every +, -, * and / returns the exact result rounded to the nearest     *)
(* representable value, ties to the even significand.  The model keeps     *)
(* that arithmetic and scales the format down: Precision significand bits  *)
(* instead of 53, and a smallest spacing of 1/Unit instead of 2^-1074.  A  *)
(* finite Number x is held as the integer x * Unit.  The inputs stay far   *)
(* below the largest finite Number, so no operation overflows to Infinity. *)
(***************************************************************************)
Precision == 4
Unit == 1024

Abs(x) == IF x < 0 THEN -x ELSE x

RECURSIVE Pow(_, _)
Pow(b, n) == IF n = 0 THEN 1 ELSE b * Pow(b, n - 1)

\* the exponent of the binade of a / b: the least e >= 0 with a / (b * 2^e)
\* below 2^Precision
RECURSIVE Exponent(_, _, _)
Exponent(a, b, e) ==
    IF a \div (b * Pow(2, e)) < Pow(2, Precision) THEN e
    ELSE Exponent(a, b, e + 1)

\* the float nearest to the rational a / b (b > 0), ties to even
RoundRat(a, b) ==
    LET m == Abs(a)
        e == Exponent(m, b, 0)
        d == b * Pow(2, e)
        q == m \div d
        r == m % d
        up == (2 * r > d) \/ (2 * r = d /\ q % 2 = 1)
        sig == IF up THEN q + 1 ELSE q
    IN  (IF a < 0 THEN -1 ELSE 1) * sig * Pow(2, e)

FAdd(x, y) == RoundRat(x + y, 1)
FSub(x, y) == RoundRat(x - y, 1)
FMul(x, y) == RoundRat(x * y, Unit)
\* x / n for a small integer n (an array length)
FDivInt(x, n) == RoundRat(x, n)

\* the Number an integer literal denotes
Int2Num(i) == RoundRat(i * Unit, 1)
\* the Number the literal 0.1 denotes
Tenth == RoundRat(Unit, 10)

\* Number.prototype.toFixed(2): the decimal with two fraction digits nearest
\* to x, the larger one on a tie, taken on the magnitude; held in hundredths
ToFixed2(x) ==
    (IF x < 0 THEN -1 ELSE 1) * ((Abs(x) * 200 + Unit) \div (2 * Unit))

(***************************************************************************)
(* JavaScript values a reading's fields can hold after JSON decoding.      *)
(* k is the type tag, n the Number (times Unit) or the boolean as 0/1,     *)
(* s the characters of a string.                                           *)
(***************************************************************************)
JsUndefined == [k |-> "undefined", n |-> 0, s |-> <<>>]
JsNull == [k |-> "null", n |-> 0, s |-> <<>>]
JsNaN == [k |-> "NaN", n |-> 0, s |-> <<>>]
JsInfinity == [k |-> "Infinity", n |-> 1, s |-> <<>>]
JsNegInfinity == [k |-> "Infinity", n |-> -1, s |-> <<>>]
JsNum(x) == [k |-> "number", n |-> x, s |-> <<>>]
JsBool(b) == [k |-> "boolean", n |-> IF b THEN 1 ELSE 0, s |-> <<>>]
JsStr(chars) == [k |-> "string", n |-> 0, s |-> chars]

\* ToBoolean: the truthiness test of `p.is_anomaly`
ToBoolean(v) ==
    CASE v.k = "undefined" -> FALSE
      [] v.k = "null" -> FALSE
      [] v.k = "NaN" -> FALSE
      [] v.k = "Infinity" -> TRUE
      [] v.k = "number" -> v.n # 0
      [] v.k = "boolean" -> v.n = 1
      [] v.k = "string" -> v.s # <<>>

Digits == <<"0", "1", "2", "3", "4", "5", "6", "7", "8", "9">>
IsDigit(c) == \E i \in 1..10 : Digits[i] = c
DigitVal(c) == (CHOOSE i \in 1..10 : Digits[i] = c) - 1
WhiteSpace == {" ", "\t", "\n"}

RECURSIVE TrimLeft(_)
TrimLeft(s) ==
    IF s # <<>> /\ Head(s) \in WhiteSpace THEN TrimLeft(Tail(s)) ELSE s

RECURSIVE TrimRight(_)
TrimRight(s) ==
    IF s # <<>> /\ s[Len(s)] \in WhiteSpace
    THEN TrimRight(SubSeq(s, 1, Len(s) - 1)) ELSE s

\* the digits of a decimal literal read as one integer, the point skipped
RECURSIVE Mantissa(_, _)
Mantissa(s, acc) ==
    IF s = <<>> THEN acc
    ELSE IF Head(s) = "." THEN Mantissa(Tail(s), acc)
    ELSE Mantissa(Tail(s), 10 * acc + DigitVal(Head(s)))

\* StringToNumber on strings without exponent part, hex prefix or the word
\* Infinity: white space is trimmed, the empty string is 0, a signed decimal
\* literal is its value, anything else is NaN
StringToNumber(s) ==
    LET t == TrimRight(TrimLeft(s))
        signed == t # <<>> /\ Head(t) \in {"+", "-"}
        body == IF signed THEN Tail(t) ELSE t
        points == {i \in 1..Len(body) : body[i] = "."}
        ndigits == Cardinality({i \in 1..Len(body) : IsDigit(body[i])})
        wellFormed == /\ \A i \in 1..Len(body) : IsDigit(body[i]) \/ body[i] = "."
                      /\ Cardinality(points) <= 1
                      /\ ndigits >= 1
        fraction == IF points = {} THEN 0
                    ELSE Len(body) - (CHOOSE i \in points : TRUE)
        magnitude == RoundRat(Mantissa(body, 0) * Unit, Pow(10, fraction))
    IN  IF t = <<>> THEN JsNum(0)
        ELSE IF ~wellFormed THEN JsNaN
        ELSE IF signed /\ Head(t) = "-" THEN JsNum(-magnitude)
        ELSE JsNum(magnitude)

\* Number(v)
Number(v) ==
    CASE v.k = "undefined" -> JsNaN
      [] v.k = "null" -> JsNum(0)
      [] v.k = "boolean" -> JsNum(v.n * Unit)
      [] v.k = "string" -> StringToNumber(v.s)
      [] OTHER -> v

\* mutant: the filter tests !isNaN(v), which lets the infinities through
NumberIsFinite_NotNaN(v) == v.k # "NaN"

\* Number.isFinite(v) for a v that Number() returned
NumberIsFinite(v) == v.k = "number"


(***************************************************************************)
(* Readings.  parameter is the property key as a string; Undefined stands  *)
(* for a reading that has no parameter field.                              *)
(***************************************************************************)
Undefined == "(undefined)"

Reading(p, v, a, t) ==
    [parameter |-> p, value |-> v, is_anomaly |-> a, timestamp |-> t,
     sensor_id |-> 1]

\* ToBoolean of `point.parameter`: a missing parameter and the empty string
\* are falsy
ParameterIsTruthy(p) == p # Undefined /\ p # ""

(***************************************************************************)
(* Plain objects used as maps (`const grouped = {}`).  keys is the own     *)
(* keys in insertion order (Object.keys for keys that are not array        *)
(* indices), get the own values.  A key that is not an own key is looked   *)
(* up on Object.prototype.                                                 *)
(***************************************************************************)
EmptyObject == [defined |-> TRUE, keys |-> <<>>, get |-> [k \in {} |-> <<>>]]
UndefinedObject == [defined |-> FALSE, keys |-> <<>>, get |-> [k \in {} |-> <<>>]]

\* properties every plain object inherits, with the `length` of the value
\* (the arity of the function; -1 where the value has no length)
ObjectPrototype ==
    [k \in {"constructor", "hasOwnProperty", "toString", "valueOf", "__proto__"} |->
        CASE k = "constructor" -> 1
          [] k = "hasOwnProperty" -> 1
          [] k = "toString" -> 0
          [] k = "valueOf" -> 0
          [] k = "__proto__" -> -1]

HasOwn(obj, key) == key \in DOMAIN obj.get
Inherits(obj, key) == ~HasOwn(obj, key) /\ key \in DOMAIN ObjectPrototype

ObjectSet(obj, key, val) ==
    [defined |-> TRUE,
     keys |-> IF HasOwn(obj, key) THEN obj.keys ELSE Append(obj.keys, key),
     get |-> [k \in DOMAIN obj.get \cup {key} |-> IF k = key THEN val ELSE obj.get[k]]]

ObjectKeys(obj) == obj.keys

(***************************************************************************)
(* DashboardTab.js: dataByParameter (the Grouper).                         *)
(***************************************************************************)
\* one call of the forEach callback; acc.threw records a TypeError
GroupPoint(acc, point) ==
    IF acc.threw \/ ~ParameterIsTruthy(point.parameter) THEN acc
    ELSE IF Inherits(acc.grouped, point.parameter)
         \* grouped[key] is the inherited value: truthy, so no array is
         \* created, and it has no push method
         THEN [acc EXCEPT !.threw = TRUE]
    ELSE LET old == IF HasOwn(acc.grouped, point.parameter)
                    THEN acc.grouped.get[point.parameter] ELSE <<>>
         IN  [acc EXCEPT !.grouped =
                 ObjectSet(acc.grouped, point.parameter, Append(old, point))]

RECURSIVE ForEachPoint(_, _)
ForEachPoint(acc, points) ==
    IF points = <<>> THEN acc
    ELSE ForEachPoint(GroupPoint(acc, Head(points)), Tail(points))

Grouper(points) == ForEachPoint([threw |-> FALSE, grouped |-> EmptyObject], points)

(***************************************************************************)
(* useAIDashboard.js: computeStats (the Statistics Computer).              *)
(***************************************************************************)
WindowSize == 8

NoReading == Reading(Undefined, JsUndefined, JsUndefined, 0)
NullStats ==
    [isNull |-> TRUE, avg |-> 0, min |-> 0, max |-> 0, latest |-> NoReading,
     trend |-> 0, anomaliesCount |-> 0]

\* points.map(p => Number(p.value)).filter(v => Number.isFinite(v)), as the
\* sequence of the finite Numbers
RECURSIVE FiniteValues(_)
FiniteValues(points) ==
    IF points = <<>> THEN <<>>
    ELSE LET v == Number(Head(points).value)
         IN  IF NumberIsFinite(v) THEN <<v.n>> \o FiniteValues(Tail(points))
             ELSE FiniteValues(Tail(points))

\* values.reduce((a, b) => a + b, 0)
RECURSIVE ReduceSum(_, _)
ReduceSum(acc, values) ==
    IF values = <<>> THEN acc
    ELSE ReduceSum(FAdd(acc, Head(values)), Tail(values))

\* mutant: the first value is taken for the least one
MathMin_First(values) == values[1]

MathMin(values) == CHOOSE m \in {values[i] : i \in 1..Len(values)} :
                       \A i \in 1..Len(values) : m <= values[i]
MathMax(values) == CHOOSE m \in {values[i] : i \in 1..Len(values)} :
                       \A i \in 1..Len(values) : m >= values[i]

\* values.slice(-n) and values.slice(0, n)
SliceLast(values, n) == SubSeq(values, Len(values) - n + 1, Len(values))
SliceFirst(values, n) == SubSeq(values, 1, n)

\* mutant: the difference is taken over the window of the last N finite values
Trend_OverLastWindow(values) ==
    LET N == IF Len(values) < WindowSize THEN Len(values) ELSE WindowSize
    IN  FSub(SliceLast(values, N)[N], SliceLast(values, N)[1])

Trend(values) ==
    LET N == IF Len(values) < WindowSize THEN Len(values) ELSE WindowSize
    IN  FSub(SliceLast(values, N)[N], SliceFirst(values, N)[1])

\* mutant: anomalies are counted among the finite readings only
IsAnomaly_FiniteOnly(p) ==
    ToBoolean(p.is_anomaly) /\ NumberIsFinite(Number(p.value))

IsAnomaly(p) == ToBoolean(p.is_anomaly)

\* mutant: the sum is divided by points.length instead of values.length
computeStats_DividesByPoints(points) ==
    IF Len(points) = 0 THEN NullStats
    ELSE LET values == FiniteValues(points)
         IN  IF Len(values) = 0 THEN NullStats
             ELSE [isNull |-> FALSE,
                   avg |-> FDivInt(ReduceSum(0, values), Len(points)),
                   min |-> MathMin(values),
                   max |-> MathMax(values),
                   latest |-> points[Len(points)],
                   trend |-> Trend(values),
                   anomaliesCount |-> Len(SelectSeq(points, IsAnomaly))]

\* mutant: latest is the reading with the greatest timestamp
computeStats_LatestByTimestamp(points) ==
    IF Len(points) = 0 THEN NullStats
    ELSE LET values == FiniteValues(points)
             newest == CHOOSE j \in 1..Len(points) :
                           \A k \in 1..Len(points) :
                               points[j].timestamp >= points[k].timestamp
         IN  IF Len(values) = 0 THEN NullStats
             ELSE [isNull |-> FALSE,
                   avg |-> FDivInt(ReduceSum(0, values), Len(values)),
                   min |-> MathMin(values),
                   max |-> MathMax(values),
                   latest |-> points[newest],
                   trend |-> Trend(values),
                   anomaliesCount |-> Len(SelectSeq(points, IsAnomaly))]

computeStats(points) ==
    IF Len(points) = 0 THEN NullStats
    ELSE LET values == FiniteValues(points)
         IN  IF Len(values) = 0 THEN NullStats
             ELSE [isNull |-> FALSE,
                   avg |-> FDivInt(ReduceSum(0, values), Len(values)),
                   min |-> MathMin(values),
                   max |-> MathMax(values),
                   latest |-> points[Len(points)],
                   trend |-> Trend(values),
                   anomaliesCount |-> Len(SelectSeq(points, IsAnomaly))]


(***************************************************************************)
(* useAIDashboard.js: the insights map (the Insight Formatter).            *)
(***************************************************************************)
NoDataText == "Net dannyh"
AwaitDataText == "Ozhidaem postuplenie dannyh."
RisingLabel == "rastet"
FallingLabel == "snizhaetsya"
StableLabel == "stabilen"
AnomalyRunText == "Proverte datchik/process: seriya anomalij."
TrendText == "Trend znachimyj - peresmotrite porogi."
NoDeviationText == "Sushchestvennyh otklonenij ne obnaruzheno."

\* parts.join(' ')
RECURSIVE Join(_)
Join(parts) ==
    IF parts = <<>> THEN <<>>
    ELSE IF Len(parts) = 1 THEN Head(parts)
    ELSE Head(parts) \o <<" ">> \o Join(Tail(parts))

\* mutant: a zero trend is labelled as rising
Direction_RisingWhenNotFalling(st) ==
    IF st.trend >= 0 THEN RisingLabel ELSE FallingLabel

Direction(st) ==
    IF st.trend > 0 THEN RisingLabel
    ELSE IF st.trend < 0 THEN FallingLabel ELSE StableLabel

\* `stats.avg || 1`
AvgOrOne(st) == IF st.avg # 0 THEN st.avg ELSE Int2Num(1)

\* mutant: the run of anomalies starts at two
AnomalyRunRule_AtLeastTwo(st) == st.anomaliesCount >= 2

AnomalyRunRule(st) == st.anomaliesCount > 2

\* mutant: the threshold is taken on the magnitude of avg
TrendRule_AbsAvg(st) == Abs(st.trend) > FMul(Abs(AvgOrOne(st)), Tenth)

TrendRule(st) == Abs(st.trend) > FMul(AvgOrOne(st), Tenth)

\* mutant: the rules are dispatched, the first match wins
Recommendations_FirstMatch(st) ==
    IF AnomalyRunRule(st) THEN <<AnomalyRunText>>
    ELSE IF TrendRule(st) THEN <<TrendText>>
    ELSE <<NoDeviationText>>

Recommendations(st) ==
    LET r1 == IF AnomalyRunRule(st) THEN <<AnomalyRunText>> ELSE <<>>
        r2 == IF TrendRule(st) THEN Append(r1, TrendText) ELSE r1
    IN  IF Len(r2) = 0 THEN <<NoDeviationText>> ELSE r2

InsightText(param, st) ==
    LET parts == << <<"Parametr ", param, ": ", Direction(st), ".">>,
                    <<"Srednee=", ToFixed2(st.avg), ", min=", ToFixed2(st.min),
                      ", maks=", ToFixed2(st.max), ".">> >>
    IN  Join(IF st.anomaliesCount > 0
             THEN Append(parts, <<"Anomalij: ", st.anomaliesCount, ".">>)
             ELSE parts)

\* mutant: the no-data insight carries no recommendation
InsightOf_NoRecommendation(param, st) ==
    IF st.isNull
    THEN [param |-> param, text |-> <<NoDataText>>, recommendations |-> <<>>]
    ELSE [param |-> param, text |-> InsightText(param, st),
          recommendations |-> Recommendations(st)]

\* the callback of (parameters || []).map, given the stats of the series
InsightOf(param, st) ==
    IF st.isNull
    THEN [param |-> param, text |-> <<NoDataText>>,
          recommendations |-> <<AwaitDataText>>]
    ELSE [param |-> param, text |-> InsightText(param, st),
          recommendations |-> Recommendations(st)]

\* `dataByParameter?.[param] || []` when the result is an array
SeriesOf(dbp, param) ==
    IF dbp.defined /\ HasOwn(dbp, param) THEN dbp.get[param] ELSE <<>>

\* the lookup returns an inherited function with a non-zero length:
\* computeStats passes the `!points?.length` test and points.map is not a
\* function
SeriesIsNotAnArray(dbp, param) ==
    dbp.defined /\ Inherits(dbp, param) /\ ObjectPrototype[param] > 0


(***************************************************************************)
(* Inputs.                                                                 *)
(***************************************************************************)
SeqsUpTo(S, n) == UNION {[1..k -> S] : k \in 0..n}

\* series of one parameter whose values are of every JSON type
MixedValues ==
    {JsNum(Int2Num(3)), JsNum(0), JsStr(<<>>), JsStr(<<"1", ".", "5">>),
     JsStr(<<" ", "-", "2", " ">>), JsStr(<<"1", "x">>), JsNull, JsUndefined,
     JsNaN, JsInfinity, JsBool(TRUE)}
MixedReadings ==
    {Reading("temperature", v, a, 0) : v \in MixedValues, a \in {JsBool(TRUE), JsUndefined}}
MixedInputs == SeqsUpTo(MixedReadings, MaxLen)

\* long series of one parameter, longer than the trend window
TrendReadings ==
    {Reading("temperature", JsNum(Int2Num(i)), JsUndefined, 0) : i \in {1, 3}}
Series1to10 ==
    [i \in 1..10 |-> Reading("temperature", JsNum(Int2Num(i)), JsUndefined, 0)]
TrendInputs == SeqsUpTo(TrendReadings, MaxTrendLen) \cup {Series1to10}

\* numeric series of one parameter with anomaly flags
MaxNumLen == 3
NumericReadings ==
    {Reading("pressure", JsNum(Int2Num(i)), JsBool(a), 0) :
        i \in {-2, 0, 1, 7}, a \in BOOLEAN}
NumericInputs == SeqsUpTo(NumericReadings, MaxNumLen)

\* reading lists of several parameters
GroupParameters == {"temperature", "pressure", "", Undefined, "constructor"}
GroupReadings ==
    {Reading(p, v, JsUndefined, 0) :
        p \in GroupParameters, v \in {JsNum(Int2Num(7)), JsStr(<<"x">>)}}
GroupInputs == SeqsUpTo(GroupReadings, MaxGroupLen)

\* series of one parameter whose readings arrive out of timestamp order
OrderReadings ==
    {Reading("temperature", v, JsUndefined, t) :
        v \in {JsNum(Int2Num(1)), JsNum(Int2Num(7)), JsStr(<<"x">>)}, t \in {1, 2}}
OrderInputs == SeqsUpTo(OrderReadings, MaxOrderLen)

TabInputs ==
    MixedInputs \cup TrendInputs \cup NumericInputs \cup GroupInputs \cup OrderInputs

\* props of a call of the hook by another caller than DashboardTab
OneReading == Reading("temperature", JsNum(Int2Num(7)), JsBool(TRUE), 0)
HookObjects ==
    {UndefinedObject, EmptyObject,
     ObjectSet(EmptyObject, "temperature", <<>>),
     ObjectSet(EmptyObject, "temperature", <<OneReading>>)}
HookParameters ==
    {[defined |-> FALSE, list |-> <<>>]} \cup
    {[defined |-> TRUE, list |-> l] :
        l \in {<<>>, <<"temperature">>, <<"humidity", "temperature">>,
               <<"toString">>, <<"temperature", "constructor">>}}

(***************************************************************************)
(* The state machine: one render of DashboardTab after setSensorData, or   *)
(* one call of the hook.                                                   *)
(***************************************************************************)
VARIABLES
    caller,           \* "DashboardTab" or "other": who calls the hook
    sensorData,       \* DashboardTab state
    dataByParameter,  \* useMemo value, the props of the hook
    parameters,       \* useMemo value, the props of the hook
    stats,            \* `stats` of every callback of the map so far
    insights,         \* the insights mapped so far
    pc,               \* what runs next
    outputs           \* the insights every finished call of the hook returned

\* websocketService.js: the fields of the service, the sockets io() has
\* created, the timeouts of the page, and what the callers of the service saw
VARIABLES
    socket,               \* this.socket: 0 for null, or an index of `sockets`
    sockets,              \* every socket created so far, with its Manager
    listeners,            \* this.listeners: event -> array of callbacks
    reconnectAttempts,    \* this.reconnectAttempts
    errorLogged,          \* this.errorLogged
    isConnecting,         \* this.isConnecting
    reconnectionDisabled, \* this.reconnectionDisabled
    connectTimeout,       \* this.connectTimeout: null, a pending or a fired timeout
    timers,               \* how many retry timeouts are pending
    subscribed,           \* every subscribe() call and the messages sent for it
    tab,                  \* the mounted DashboardTab and the handler of its effect
    effects,              \* how many times the effect of the tab has run
    relay                 \* the last 'sensor_data' event relayed and what it invoked

wsVars ==
    <<socket, sockets, listeners, reconnectAttempts, errorLogged, isConnecting,
      reconnectionDisabled, connectTimeout, timers, subscribed, tab, effects, relay>>

\* DashboardTab.js: the state and refs of the tab: loadData, the forecast
\* and anomaly loaders, and the autoencoder training
VARIABLES
    loading,               \* state `loading`
    latestData,            \* state `latestData`
    calls,                 \* every loadData call so far, in the order they began
    lastSettle,            \* the loadData call that ended last, its responses,
                           \* and what the loadForecasts call of its render did
    loadingForecastsRef,   \* loadingForecastsRef.current
    lastForecastParamsRef, \* lastForecastParamsRef.current
    forecasts,             \* state `forecasts`
    forecastPasses,        \* the loadForecasts calls that are awaiting a request
    loadingAnomaliesRef,   \* loadingAnomaliesRef.current
    lastAnomalyParamsRef,  \* lastAnomalyParamsRef.current
    anomalies,             \* state `anomalies`
    anomalyPasses,         \* the loadAnomalies calls that are awaiting a request
    trainingStatus,        \* state `trainingStatus`, with the call in flight
    retrainTimer,          \* the timeout handleTrainAutoencoder has set
    backendModel,          \* how many times the backend has trained the autoencoder
    refetch                \* what the last callback of the retrain timeout did:
                           \* "fetched" a pass, found one "busy", or "skipped"

loadVars == <<loading, latestData, calls, lastSettle>>
forecastVars ==
    <<loadingForecastsRef, lastForecastParamsRef, forecasts, forecastPasses>>
anomalyVars ==
    <<loadingAnomaliesRef, lastAnomalyParamsRef, anomalies, anomalyPasses>>
trainingVars == <<trainingStatus, retrainTimer, backendModel, refetch>>

tabVars == <<loadVars, forecastVars, anomalyVars, trainingVars>>

pipelineVars ==
    <<caller, sensorData, dataByParameter, parameters, stats, insights, pc, outputs>>

vars == <<pipelineVars, wsVars, tabVars>>

\* the service as its constructor leaves it, no tab mounted
Unmounted == [sensorType |-> "(unmounted)", handler |-> 0]
NoListeners == [e \in {} |-> <<>>]
NoRelay == [relayed |-> FALSE]
WsConstructed ==
    /\ socket = 0
    /\ sockets = <<>>
    /\ listeners = NoListeners
    /\ reconnectAttempts = 0
    /\ errorLogged = FALSE
    /\ isConnecting = FALSE
    /\ reconnectionDisabled = FALSE
    /\ connectTimeout = "null"
    /\ timers = 0
    /\ subscribed = <<>>
    /\ tab = Unmounted
    /\ effects = 0
    /\ relay = NoRelay

\* the initial state and refs of a DashboardTab
\* useRef(''): the empty string, which no key equals, is the empty tuple
NoKey == <<>>
NoPasses == <<>>
NoSettle == [call |-> 0]
NoTraining == [status |-> "idle"]
NoTimer == [pending |-> FALSE]
TabMounted ==
    /\ loading = TRUE
    /\ latestData = <<>>
    /\ calls = <<>>
    /\ lastSettle = NoSettle
    /\ loadingForecastsRef = FALSE
    /\ lastForecastParamsRef = NoKey
    /\ forecasts = {}
    /\ forecastPasses = NoPasses
    /\ loadingAnomaliesRef = FALSE
    /\ lastAnomalyParamsRef = NoKey
    /\ anomalies = {}
    /\ anomalyPasses = NoPasses
    /\ trainingStatus = NoTraining
    /\ retrainTimer = NoTimer
    /\ backendModel = 0
    /\ refetch = "none"

Init ==
    /\ WsConstructed
    /\ TabMounted
    /\ stats = <<>>
    /\ insights = <<>>
    /\ outputs = <<>>
    /\ \/ /\ caller = "DashboardTab"
          /\ sensorData \in TabInputs
          /\ dataByParameter = UndefinedObject
          /\ parameters = [defined |-> FALSE, list |-> <<>>]
          /\ pc = "dataByParameter"
       \/ /\ caller = "other"
          /\ sensorData = <<>>
          /\ dataByParameter \in HookObjects
          /\ parameters \in HookParameters
          /\ pc = "insights"

\* mutant: the groups are added to the groups of the previous render
DataByParameter_KeepsGroups ==
    LET start == IF dataByParameter.defined THEN dataByParameter ELSE EmptyObject
        g == ForEachPoint([threw |-> FALSE, grouped |-> start], sensorData)
    IN  /\ pc = "dataByParameter"
        /\ ~g.threw
        /\ dataByParameter' = g.grouped
        /\ pc' = "parameters"
        /\ UNCHANGED <<caller, sensorData, parameters, stats, insights, outputs>>
        /\ UNCHANGED <<wsVars, tabVars>>

\* DashboardTab.js: const dataByParameter = useMemo(...)
DataByParameter ==
    /\ pc = "dataByParameter"
    /\ ~Grouper(sensorData).threw
    /\ dataByParameter' = Grouper(sensorData).grouped
    /\ pc' = "parameters"
    /\ UNCHANGED <<caller, sensorData, parameters, stats, insights, outputs>>
    /\ UNCHANGED <<wsVars, tabVars>>

\* the forEach callback throws a TypeError: the render fails
DataByParameterThrows ==
    /\ pc = "dataByParameter"
    /\ Grouper(sensorData).threw
    /\ pc' = "threw"
    /\ UNCHANGED <<caller, sensorData, dataByParameter, parameters, stats, insights,
                   outputs>>
    /\ UNCHANGED <<wsVars, tabVars>>

\* DashboardTab.js: const parameters = useMemo(() => Object.keys(dataByParameter))
Parameters ==
    /\ pc = "parameters"
    /\ parameters' = [defined |-> TRUE, list |-> ObjectKeys(dataByParameter)]
    /\ pc' = "insights"
    /\ UNCHANGED <<caller, sensorData, dataByParameter, stats, insights, outputs>>
    /\ UNCHANGED <<wsVars, tabVars>>

\* `parameters || []`
ParameterList == IF parameters.defined THEN parameters.list ELSE <<>>

\* one callback of (parameters || []).map
Insight ==
    /\ pc = "insights"
    /\ Len(insights) < Len(ParameterList)
    /\ LET param == ParameterList[Len(insights) + 1]
           st == computeStats(SeriesOf(dataByParameter, param))
       IN  /\ ~SeriesIsNotAnArray(dataByParameter, param)
           /\ stats' = Append(stats, st)
           /\ insights' = Append(insights, InsightOf(param, st))
    /\ UNCHANGED <<caller, sensorData, dataByParameter, parameters, pc, outputs>>
    /\ UNCHANGED <<wsVars, tabVars>>

\* computeStats throws a TypeError on a series that is not an array
InsightThrows ==
    /\ pc = "insights"
    /\ Len(insights) < Len(ParameterList)
    /\ SeriesIsNotAnArray(dataByParameter, ParameterList[Len(insights) + 1])
    /\ pc' = "threw"
    /\ UNCHANGED <<caller, sensorData, dataByParameter, parameters, stats, insights,
                   outputs>>
    /\ UNCHANGED <<wsVars, tabVars>>

\* return { insights }
Return ==
    /\ pc = "insights"
    /\ Len(insights) = Len(ParameterList)
    /\ pc' = "done"
    /\ outputs' = Append(outputs, insights)
    /\ UNCHANGED <<caller, sensorData, dataByParameter, parameters, stats, insights>>
    /\ UNCHANGED <<wsVars, tabVars>>

\* the component renders again on the same input (setSensorData with a new
\* array of the same readings, or a state change of the caller): the memo
\* and the hook run again, the locals of the hook start afresh
Rerender ==
    /\ pc = "done"
    /\ Len(outputs) < MaxRenders
    /\ pc' = IF caller = "DashboardTab" THEN "dataByParameter" ELSE "insights"
    /\ stats' = <<>>
    /\ insights' = <<>>
    /\ UNCHANGED <<caller, sensorData, dataByParameter, parameters, outputs>>
    /\ UNCHANGED <<wsVars, tabVars>>

Next ==
    \/ DataByParameter
    \/ DataByParameterThrows
    \/ Parameters
    \/ Insight
    \/ InsightThrows
    \/ Return
    \/ Rerender

Spec == Init /\ [][Next]_vars


(***************************************************************************)
(* websocketService.js: the singleton WebSocketService, the sockets and    *)
(* Managers of socket.io-client it drives, and the effect of DashboardTab  *)
(* that listens to it.                                                     *)
(***************************************************************************)
maxReconnectAttempts == 5
MaxSockets == 3      \* sockets io() creates in one run
MaxSubscribes == 2   \* subscribe() calls in one run
MaxEffects == 2      \* runs of the effect of the tab in one run
SensorTypes == {"raw_material", "production_line"}

\* a socket as io() returns it: autoConnect opens its Manager at once
NewSocket ==
    [handlers |-> TRUE, phase |-> "opening", attempts |-> 0, reconnection |-> TRUE]

\* socket.connected
Connected(socks, i) == i # 0 /\ socks[i].phase = "connected"

\* `this.socket.connecting`: a Socket of socket.io-client has the fields
\* connected, disconnected and active and no field `connecting`, the read
\* gives undefined
SocketConnecting(socks, i) == FALSE

\* socket.removeAllListeners(); socket.disconnect(): the socket is destroyed
\* and its Manager, left without an active socket, closes
TearDown(socks, i) ==
    IF i = 0 THEN socks
    ELSE [socks EXCEPT ![i] = [@ EXCEPT !.handlers = FALSE, !.phase = "closed"]]

\* mutant: the socket in hand is dropped with its handlers attached
connect_NoTearDown(sock, socks, connecting, disabled) ==
    IF Connected(socks, sock) THEN
        [socket |-> sock, sockets |-> socks, isConnecting |-> connecting]
    ELSE IF connecting \/ (sock # 0 /\ SocketConnecting(socks, sock)) THEN
        [socket |-> sock, sockets |-> socks, isConnecting |-> connecting]
    ELSE IF disabled THEN
        [socket |-> sock, sockets |-> socks, isConnecting |-> connecting]
    ELSE
        [socket |-> Len(socks) + 1, sockets |-> Append(socks, NewSocket),
         isConnecting |-> TRUE]

\* connect(): the fields it reads and the fields it assigns
connect(sock, socks, connecting, disabled) ==
    IF Connected(socks, sock) THEN
        [socket |-> sock, sockets |-> socks, isConnecting |-> connecting]
    ELSE IF connecting \/ (sock # 0 /\ SocketConnecting(socks, sock)) THEN
        [socket |-> sock, sockets |-> socks, isConnecting |-> connecting]
    ELSE IF disabled THEN
        [socket |-> sock, sockets |-> socks, isConnecting |-> connecting]
    ELSE
        [socket |-> Len(socks) + 1,
         sockets |-> Append(TearDown(socks, sock), NewSocket),
         isConnecting |-> TRUE]

\* on(event, callback)
On(l, event, callback) ==
    IF event \in DOMAIN l
    THEN [l EXCEPT ![event] = Append(@, callback)]
    ELSE [e \in DOMAIN l \cup {event} |-> IF e = event THEN <<callback>> ELSE l[e]]

\* callbacks.indexOf(callback): 0 stands for -1
IndexOf(callbacks, callback) ==
    IF \E k \in 1..Len(callbacks) : callbacks[k] = callback
    THEN CHOOSE k \in 1..Len(callbacks) :
             /\ callbacks[k] = callback
             /\ \A j \in 1..(k - 1) : callbacks[j] # callback
    ELSE 0

\* callbacks.splice(index, 1)
Splice(callbacks, index) ==
    [k \in 1..(Len(callbacks) - 1) |->
        IF k < index THEN callbacks[k] ELSE callbacks[k + 1]]

\* off(event, callback)
Off(l, event, callback) ==
    IF event \in DOMAIN l /\ IndexOf(l[event], callback) > 0
    THEN [l EXCEPT ![event] = Splice(@, IndexOf(@, callback))]
    ELSE l

\* the closures the callers register: onConnect of subscribe(sensorType),
\* one per call, and handleSensorData of the effect of the tab, one per run
OnConnect(id, sensorType) ==
    [fn |-> "onConnect", id |-> id, sensorType |-> sensorType]
HandleSensorData(id, sensorType) ==
    [fn |-> "handleSensorData", id |-> id, sensorType |-> sensorType]

\* socket.emit('subscribe', {sensor_type}) for the call `id`: the message is
\* logged with the number of 'connect' events since that call
Send(subs, id) == [subs EXCEPT ![id].sent = Append(@, subs[id].connectsSince)]

\* one callback called with `data`.  w is what a callback can touch: the
\* listeners, the log of the subscribe calls, the record of the relay;
\* w.called lists the callbacks the emit has called so far
Call(w, callback, data, connected) ==
    IF callback.fn = "onConnect" THEN
        [w EXCEPT !.called = Append(@, callback),
                  !.subscribed = IF connected THEN Send(@, callback.id) ELSE @,
                  !.listeners = Off(@, "connect", callback)]
    ELSE
        [w EXCEPT !.called = Append(@, callback),
                  !.invoked = Append(@, callback.id),
                  !.loads = IF data = callback.sensorType
                            THEN Append(@, callback.id) ELSE @]

\* Array.prototype.forEach of emit: the indices below the length the array
\* had when forEach began are visited in order, and an index the array no
\* longer has when its turn comes is skipped
RECURSIVE ForEachCallback(_, _, _, _, _, _)
ForEachCallback(w, event, data, connected, k, len) ==
    IF k > len THEN w
    ELSE IF k > Len(w.listeners[event])
         THEN ForEachCallback(w, event, data, connected, k + 1, len)
         ELSE ForEachCallback(Call(w, w.listeners[event][k], data, connected),
                              event, data, connected, k + 1, len)

\* emit(event, data)
Emit(w, event, data, connected) ==
    IF event \in DOMAIN w.listeners
    THEN ForEachCallback(w, event, data, connected, 1, Len(w.listeners[event]))
    ELSE w

\* what the callbacks of an emit start from
World == [listeners |-> listeners, subscribed |-> subscribed,
          called |-> <<>>, invoked |-> <<>>, loads |-> <<>>]

\* clearTimeout(this.connectTimeout) when the field is set
ClearedTimers == IF connectTimeout = "pending" THEN timers - 1 ELSE timers

\* the sockets the library can deliver events of
Sockets == 1..Len(sockets)

\* a call of connect()
Connect ==
    LET c == connect(socket, sockets, isConnecting, reconnectionDisabled)
    IN  /\ Len(c.sockets) <= MaxSockets
        /\ socket' = c.socket
        /\ sockets' = c.sockets
        /\ isConnecting' = c.isConnecting
        /\ UNCHANGED <<listeners, reconnectAttempts, errorLogged, reconnectionDisabled,
                       connectTimeout, timers, subscribed, tab, effects, relay>>
        /\ UNCHANGED <<pipelineVars, tabVars>>

\* a call of disconnect()
Disconnect ==
    /\ timers' = ClearedTimers
    /\ connectTimeout' = "null"
    /\ sockets' = TearDown(sockets, socket)
    /\ socket' = 0
    /\ listeners' = NoListeners
    /\ reconnectAttempts' = 0
    /\ errorLogged' = FALSE
    /\ isConnecting' = FALSE
    /\ reconnectionDisabled' = FALSE
    /\ UNCHANGED <<subscribed, tab, effects, relay>>
    /\ UNCHANGED <<pipelineVars, tabVars>>

\* a call of subscribe(sensorType)
Subscribe(sensorType) ==
    LET id == Len(subscribed) + 1
        call == [sensorType |-> sensorType, pending |-> ~Connected(sockets, socket),
                 connectsSince |-> 0, sent |-> <<>>]
    IN  /\ Len(subscribed) < MaxSubscribes
        /\ IF Connected(sockets, socket)
           THEN /\ subscribed' = Send(Append(subscribed, call), id)
                /\ UNCHANGED listeners
           ELSE /\ subscribed' = Append(subscribed, call)
                /\ listeners' = On(listeners, "connect", OnConnect(id, sensorType))
        /\ UNCHANGED <<socket, sockets, reconnectAttempts, errorLogged, isConnecting,
                       reconnectionDisabled, connectTimeout, timers, tab, effects, relay>>
        /\ UNCHANGED <<pipelineVars, tabVars>>

\* the 'connect' handler of a socket
SocketConnect(i) ==
    LET counted == [k \in 1..Len(subscribed) |->
                       [subscribed[k] EXCEPT !.connectsSince =
                            IF @ < 2 THEN @ + 1 ELSE @]]
        w == Emit([World EXCEPT !.subscribed = counted], "connect", "(undefined)",
                  socket = i)
    IN  /\ sockets[i].handlers
        /\ sockets[i].phase \in {"opening", "handshake"}
        /\ sockets' = [sockets EXCEPT ![i].phase = "connected"]
        /\ reconnectAttempts' = 0
        /\ errorLogged' = FALSE
        /\ isConnecting' = FALSE
        /\ reconnectionDisabled' = FALSE
        /\ listeners' = w.listeners
        /\ subscribed' = w.subscribed
        /\ timers' = ClearedTimers
        /\ connectTimeout' = "null"
        /\ UNCHANGED <<socket, tab, effects, relay>>
        /\ UNCHANGED <<pipelineVars, tabVars>>

\* the 'disconnect' handler of a socket.  After a lost transport the Manager
\* reconnects when its reconnection option is on; after a disconnect by the
\* server the socket stays closed.  The transport can also be lost while
\* the socket waits for its namespace after a 'reconnect'
SocketDisconnect(i, after) ==
    /\ sockets[i].handlers
    /\ sockets[i].phase \in {"connected", "handshake"}
    /\ sockets[i].phase = "handshake" => after = "retrying"
    /\ after = "retrying" => sockets[i].reconnection
    /\ sockets' = [sockets EXCEPT ![i].phase = after,
                                  ![i].attempts = IF after = "retrying" THEN 1 ELSE 0]
    /\ isConnecting' = FALSE
    /\ listeners' = Emit(World, "disconnect", "(undefined)", FALSE).listeners
    /\ UNCHANGED <<socket, reconnectAttempts, errorLogged, reconnectionDisabled,
                   connectTimeout, timers, subscribed, tab, effects, relay>>
    /\ UNCHANGED <<pipelineVars, tabVars>>

\* mutant: the limit is passed before reconnection is disabled
ReachedMax_Above(attempts) == attempts > maxReconnectAttempts

\* this.reconnectAttempts >= this.maxReconnectAttempts
ReachedMax(attempts) == attempts >= maxReconnectAttempts

\* mutant: the Manager gives up before the service has counted to its limit
reconnectionAttempts_Fewer == maxReconnectAttempts - 2

\* the option reconnectionAttempts that connect() passes to io()
reconnectionAttempts == maxReconnectAttempts

\* the 'connect_error' handler of a socket, and what its Manager does next.
\* `after` is the way the library goes on:
\*   "idle"      no further attempt: the server refused the namespace, or the
\*               Manager stops at reconnection(false)
\*   "retrying"  the Manager schedules the next reconnection attempt; a
\*               Manager in a reconnection cycle goes on after
\*               reconnection(false) in the releases that read the option
\*               only when a cycle starts
\*   "failed"    the cycle has used its reconnectionAttempts: the Manager
\*               emits 'reconnect_failed', whose handler runs in the same turn
SocketConnectError(i, after) ==
    LET attempts == reconnectAttempts + 1
        disable == ReachedMax(attempts)
        reconnection == IF disable /\ socket # 0
                        THEN [sockets EXCEPT ![socket].reconnection = FALSE]
                        ELSE sockets
        cycle == sockets[i].phase = "retrying"
    IN  /\ sockets[i].handlers
        /\ sockets[i].phase \in {"opening", "handshake", "retrying"}
        /\ after \in {"idle", "retrying", "failed"}
        /\ after = "idle" => ~cycle \/ ~reconnection[i].reconnection
        /\ after = "retrying" =>
               /\ sockets[i].phase # "handshake"
               /\ IF cycle THEN sockets[i].attempts < reconnectionAttempts
                           ELSE reconnection[i].reconnection
        /\ after = "failed" => cycle /\ sockets[i].attempts >= reconnectionAttempts
        /\ sockets' = [reconnection EXCEPT
               ![i].phase = IF after = "retrying" THEN "retrying" ELSE "idle",
               ![i].attempts = IF after = "retrying" THEN @ + 1 ELSE @]
        /\ isConnecting' = FALSE
        /\ reconnectAttempts' = attempts
        /\ errorLogged' = TRUE
        /\ reconnectionDisabled' = (disable \/ after = "failed" \/ reconnectionDisabled)
        /\ timers' = IF disable THEN ClearedTimers + 1 ELSE timers
        /\ connectTimeout' = IF disable THEN "pending" ELSE connectTimeout
        /\ UNCHANGED <<socket, listeners, subscribed, tab, effects, relay>>
        /\ UNCHANGED <<pipelineVars, tabVars>>

\* the 'reconnect' handler of the Manager of a socket: an attempt of its
\* reconnection cycle has opened the transport, the socket now asks the
\* server for its namespace
ManagerReconnect(i) ==
    /\ sockets[i].phase = "retrying"
    /\ sockets' = [sockets EXCEPT ![i].phase = "handshake", ![i].attempts = 0]
    /\ reconnectAttempts' = 0
    /\ errorLogged' = FALSE
    /\ reconnectionDisabled' = FALSE
    /\ UNCHANGED <<socket, listeners, isConnecting, connectTimeout, timers,
                   subscribed, tab, effects, relay>>
    /\ UNCHANGED <<pipelineVars, tabVars>>

\* the callback of the retry timeout, 30 s after it was set
RetryTimeout ==
    LET c == connect(socket, sockets, isConnecting, FALSE)
    IN  /\ timers > 0
        /\ Len(c.sockets) <= MaxSockets
        /\ timers' = timers - 1
        /\ connectTimeout' = IF connectTimeout = "pending" /\ timers = 1
                             THEN "fired" ELSE connectTimeout
        /\ reconnectionDisabled' = FALSE
        /\ reconnectAttempts' = 0
        /\ socket' = c.socket
        /\ sockets' = c.sockets
        /\ isConnecting' = c.isConnecting
        /\ UNCHANGED <<listeners, errorLogged, subscribed, tab, effects, relay>>
        /\ UNCHANGED <<pipelineVars, tabVars>>

\* the 'sensor_data' handler of a socket relays the event to the listeners
SensorData(i, sensorType) ==
    LET w == Emit(World, "sensor_data", sensorType, socket = i)
    IN  /\ sockets[i].handlers
        /\ sockets[i].phase = "connected"
        /\ relay' = [relayed |-> TRUE, sensor_type |-> sensorType, tab |-> tab,
                     invoked |-> w.invoked, loads |-> w.loads]
        /\ listeners' = w.listeners
        /\ UNCHANGED <<socket, sockets, reconnectAttempts, errorLogged, isConnecting,
                       reconnectionDisabled, connectTimeout, timers, subscribed,
                       tab, effects>>
        /\ UNCHANGED <<pipelineVars, tabVars>>

\* DashboardTab.js: the effect runs at mount and registers its handler
TabEffect(sensorType) ==
    /\ tab = Unmounted
    /\ effects < MaxEffects
    /\ effects' = effects + 1
    /\ tab' = [sensorType |-> sensorType, handler |-> effects + 1]
    /\ listeners' = On(listeners, "sensor_data", HandleSensorData(effects + 1, sensorType))
    /\ UNCHANGED <<socket, sockets, reconnectAttempts, errorLogged, isConnecting,
                   reconnectionDisabled, connectTimeout, timers, subscribed, relay>>
    /\ UNCHANGED <<pipelineVars, tabVars>>

\* DashboardTab.js: the cleanup of the effect at unmount
TabCleanup ==
    /\ tab # Unmounted
    /\ tab' = Unmounted
    /\ listeners' = Off(listeners, "sensor_data",
                        HandleSensorData(tab.handler, tab.sensorType))
    /\ UNCHANGED <<socket, sockets, reconnectAttempts, errorLogged, isConnecting,
                   reconnectionDisabled, connectTimeout, timers, subscribed,
                   effects, relay>>
    /\ UNCHANGED <<pipelineVars, tabVars>>

\* DashboardTab.js: the prop sensorType changes, the cleanup of the old
\* effect runs and then the effect with the new value
TabSensorTypeChanges(sensorType) ==
    /\ tab # Unmounted
    /\ sensorType # tab.sensorType
    /\ effects < MaxEffects
    /\ effects' = effects + 1
    /\ tab' = [sensorType |-> sensorType, handler |-> effects + 1]
    /\ listeners' = On(Off(listeners, "sensor_data",
                           HandleSensorData(tab.handler, tab.sensorType)),
                       "sensor_data", HandleSensorData(effects + 1, sensorType))
    /\ UNCHANGED <<socket, sockets, reconnectAttempts, errorLogged, isConnecting,
                   reconnectionDisabled, connectTimeout, timers, subscribed, relay>>
    /\ UNCHANGED <<pipelineVars, tabVars>>

\* the pipeline is at rest while the service runs
PipelineAtRest ==
    /\ caller = "DashboardTab"
    /\ sensorData = <<>>
    /\ dataByParameter = UndefinedObject
    /\ parameters = [defined |-> FALSE, list |-> <<>>]
    /\ stats = <<>>
    /\ insights = <<>>
    /\ pc = "done"
    /\ outputs = <<>>

WsInit == PipelineAtRest /\ WsConstructed /\ TabMounted

\* the connection of the service: the calls of connect() and disconnect(),
\* the events of the sockets and the retry timeout.  No callback is
\* registered here; the callbacks touch none of the connection fields.
WsNext ==
    \/ Connect
    \/ Disconnect
    \/ \E i \in Sockets : SocketConnect(i)
    \/ \E i \in Sockets, after \in {"retrying", "idle"} : SocketDisconnect(i, after)
    \/ \E i \in Sockets, after \in {"idle", "retrying", "failed"} :
           SocketConnectError(i, after)
    \/ \E i \in Sockets : ManagerReconnect(i)
    \/ RetryTimeout

WsSpec == WsInit /\ [][WsNext]_vars

\* the listeners of the service: the callers subscribe and listen while the
\* service connects, disconnects and relays events, over a server that
\* accepts every connection
ListenNext ==
    \/ Connect
    \/ Disconnect
    \/ \E sensorType \in SensorTypes : Subscribe(sensorType)
    \/ \E i \in Sockets : SocketConnect(i)
    \/ \E i \in Sockets, after \in {"retrying", "idle"} : SocketDisconnect(i, after)
    \/ \E i \in Sockets : ManagerReconnect(i)
    \/ \E i \in Sockets, sensorType \in SensorTypes : SensorData(i, sensorType)
    \/ \E sensorType \in SensorTypes : TabEffect(sensorType)
    \/ TabCleanup
    \/ \E sensorType \in SensorTypes : TabSensorTypeChanges(sensorType)

ListenSpec == WsInit /\ [][ListenNext]_vars

(***************************************************************************)
(* DashboardTab.js: loadData, the forecast and anomaly loaders (with the   *)
(* effect that calls them) and the training of the autoencoder.  One       *)
(* training is followed at a time.                                         *)
(***************************************************************************)
MaxTrainings == 1    \* trainings of the autoencoder in one run
MaxCalls == 2        \* loadData calls in one run

\* the arrays the backend sends: sensor readings, latest values
TabDatasets ==
    {<<>>,
     <<Reading("temperature", JsNum(Int2Num(7)), JsUndefined, 1)>>,
     <<Reading("temperature", JsNum(Int2Num(7)), JsUndefined, 1),
       Reading("humidity", JsNum(Int2Num(1)), JsUndefined, 2)>>}
TabLatest ==
    {<<>>, <<Reading("temperature", JsNum(Int2Num(7)), JsUndefined, 1)>>}

\* what a fetch of loadData can come back with: a JSON value of any shape,
\* or the rejection of its promise
ArrayOf(items) == [kind |-> "array", items |-> items]
ObjectOf(fields) == [kind |-> "object", fields |-> fields]
JsonNull == [kind |-> "null"]
JsonString == [kind |-> "string"]
NoField == [kind |-> "undefined"]
Rejected == [kind |-> "rejected"]
Field(name, value) == [f \in {name} |-> value]
Fields(name, value, other, otherValue) ==
    [f \in {name, other} |-> IF f = name THEN value ELSE otherValue]

\* Array.isArray(v), the truthiness of v, and response?.[field]
IsArray(v) == v.kind = "array"
IsTruthy(v) == v.kind \in {"array", "object", "string"}
Get(response, field) ==
    IF response.kind = "object" /\ field \in DOMAIN response.fields
    THEN response.fields[field]
    ELSE NoField

\* the responses to /data and to /latest: the array bare, under `data`,
\* under `sensor_data` or `latest`, behind a `data` that is no array, two
\* arrays at once, and shapes that hold no array where loadData looks
SensorResponses ==
    UNION {{ArrayOf(d),
            ObjectOf(Field("data", ArrayOf(d))),
            ObjectOf(Field("sensor_data", ArrayOf(d))),
            ObjectOf(Fields("data", JsonString, "sensor_data", ArrayOf(d))),
            ObjectOf(Fields("data", ArrayOf(d), "sensor_data", ArrayOf(<<>>)))}
           : d \in TabDatasets}
    \cup {ObjectOf(Field("latest", ArrayOf(d))) : d \in TabDatasets}
    \cup {JsonNull, JsonString, ObjectOf(Field("data", JsonString))}
LatestResponses ==
    UNION {{ArrayOf(l),
            ObjectOf(Field("data", ArrayOf(l))),
            ObjectOf(Field("latest", ArrayOf(l))),
            ObjectOf(Fields("data", JsonString, "latest", ArrayOf(l))),
            ObjectOf(Fields("data", ArrayOf(l), "latest", ArrayOf(<<>>)))}
           : l \in TabLatest}
    \cup {ObjectOf(Field("sensor_data", ArrayOf(l))) : l \in TabLatest}
    \cup {JsonNull, JsonString}

\* the responses of the runs that follow the loaders: bare arrays
ArrayResponses == {ArrayOf(d) : d \in TabDatasets}

\* the pairs of responses of the runs that follow loadData: every shape of
\* one response beside a bare array, and every way the pair can fail
LoadResponses ==
    LET data == ArrayOf(<<Reading("temperature", JsNum(Int2Num(7)), JsUndefined, 1)>>)
        latest == ArrayOf(<<Reading("temperature", JsNum(Int2Num(7)), JsUndefined, 1)>>)
    IN  {<<d, latest>> : d \in SensorResponses \cup {Rejected}}
        \cup {<<data, l>> : l \in LatestResponses \cup {Rejected}}
        \cup {<<Rejected, Rejected>>}

\* mutant: `sensor_data` is looked at before `data`
sensorDataArray_SensorDataFirst(data) ==
    IF IsArray(data) THEN data.items
    ELSE IF IsTruthy(Get(data, "sensor_data")) /\ IsArray(Get(data, "sensor_data"))
    THEN Get(data, "sensor_data").items
    ELSE IF IsTruthy(Get(data, "data")) /\ IsArray(Get(data, "data"))
    THEN Get(data, "data").items
    ELSE <<>>

\* let sensorDataArray = []; if ... else if ... else if ...
sensorDataArray(data) ==
    IF IsArray(data) THEN data.items
    ELSE IF IsTruthy(Get(data, "data")) /\ IsArray(Get(data, "data"))
    THEN Get(data, "data").items
    ELSE IF IsTruthy(Get(data, "sensor_data")) /\ IsArray(Get(data, "sensor_data"))
    THEN Get(data, "sensor_data").items
    ELSE <<>>

\* let latestDataArray = []; if ... else if ... else if ...
latestDataArray(latest) ==
    IF IsArray(latest) THEN latest.items
    ELSE IF IsTruthy(Get(latest, "data")) /\ IsArray(Get(latest, "data"))
    THEN Get(latest, "data").items
    ELSE IF IsTruthy(Get(latest, "latest")) /\ IsArray(Get(latest, "latest"))
    THEN Get(latest, "latest").items
    ELSE <<>>

\* mutant: only the array whose fetch failed is emptied
loadData_EmptiesTheFailedOnly(data, latest) ==
    [failed |-> data = Rejected \/ latest = Rejected,
     sensorData |-> IF data = Rejected THEN <<>> ELSE sensorDataArray(data),
     latestData |-> IF latest = Rejected THEN <<>> ELSE latestDataArray(latest)]

\* what loadData sets once Promise.all has settled: the try block after the
\* await, or the catch block when a fetch was rejected
loadData(data, latest) ==
    IF data = Rejected \/ latest = Rejected
    THEN [failed |-> TRUE, sensorData |-> <<>>, latestData |-> <<>>]
    ELSE [failed |-> FALSE, sensorData |-> sensorDataArray(data),
          latestData |-> latestDataArray(latest)]

\* [...new Set(seq)]: the distinct elements in the order they first appear
RECURSIVE Unique(_)
Unique(seq) ==
    IF seq = <<>> THEN <<>>
    ELSE LET front == Unique(SubSeq(seq, 1, Len(seq) - 1))
             x == seq[Len(seq)]
         IN  IF \E k \in 1..Len(front) : front[k] = x THEN front ELSE Append(front, x)

\* const sensorIds = useMemo(...)
SensorIds(data) == Unique([k \in 1..Len(data) |-> data[k].sensor_id])

\* const parameters = useMemo(...) over dataByParameter
ParametersOf(data) == ObjectKeys(Grouper(data).grouped)

\* the insights the hook returns to the render that sees `data`
InsightsOf(data) ==
    LET dbp == Grouper(data).grouped
        params == ObjectKeys(dbp)
    IN  [i \in 1..Len(params) |->
            InsightOf(params[i], computeStats(SeriesOf(dbp, params[i])))]

\* `${sensorIds.join(',')}:${parameters.join(',')}`: the names of the model
\* hold no ',' and no ':', so the string and the two lists determine each
\* other
ParamsKey(data) == <<SensorIds(data), ParametersOf(data)>>

\* sensorIds.find(id => sensorData.some(...)) || sensorIds[0]
SensorIdFor(data, param) ==
    LET ids == SensorIds(data)
        has(id) == \E k \in 1..Len(data) :
                       data[k].sensor_id = id /\ data[k].parameter = param
    IN  IF \E j \in 1..Len(ids) : has(ids[j])
        THEN ids[CHOOSE j \in 1..Len(ids) :
                     has(ids[j]) /\ \A i \in 1..(j - 1) : ~has(ids[i])]
        ELSE ids[1]

\* the parameters of the loop that get a request: `if (sensorId)`
Requested(data) ==
    SelectSeq(ParametersOf(data), LAMBDA param : SensorIdFor(data, param) # 0)

\* a pass of a loader at its first await, and the passes left when one ends
NewPass(data) == [todo |-> Requested(data), got |-> {}]
Without(passes, p) ==
    [k \in 1..(Len(passes) - 1) |-> IF k < p THEN passes[k] ELSE passes[k + 1]]

\* mutant: a pass begins while another one is running
loadForecasts_NoRefTest(data, ref, last, passes) ==
    LET idle == [loadingForecastsRef |-> ref, lastForecastParamsRef |-> last,
                 forecastPasses |-> passes]
    IN  IF SensorIds(data) = <<>> \/ ParametersOf(data) = <<>>
        THEN [returned |-> "no data"] @@ idle
        ELSE IF last = ParamsKey(data) THEN [returned |-> "same key"] @@ idle
        ELSE [returned |-> "started", loadingForecastsRef |-> TRUE,
              lastForecastParamsRef |-> ParamsKey(data),
              forecastPasses |-> Append(passes, NewPass(data))]

\* mutant: a pass begins although the key is the key of the last pass
loadForecasts_NoKeyTest(data, ref, last, passes) ==
    LET idle == [loadingForecastsRef |-> ref, lastForecastParamsRef |-> last,
                 forecastPasses |-> passes]
    IN  IF SensorIds(data) = <<>> \/ ParametersOf(data) = <<>>
        THEN [returned |-> "no data"] @@ idle
        ELSE IF ref THEN [returned |-> "running"] @@ idle
        ELSE [returned |-> "started", loadingForecastsRef |-> TRUE,
              lastForecastParamsRef |-> ParamsKey(data),
              forecastPasses |-> Append(passes, NewPass(data))]

\* loadForecasts() of the render that saw `data`, up to its first await:
\* the refs and the passes it leaves, and the test it returned at ("no
\* data", a pass "running", the "same key") or that it "started" a pass
loadForecasts(data, ref, last, passes) ==
    LET idle == [loadingForecastsRef |-> ref, lastForecastParamsRef |-> last,
                 forecastPasses |-> passes]
    IN  IF SensorIds(data) = <<>> \/ ParametersOf(data) = <<>>
        THEN [returned |-> "no data"] @@ idle
        ELSE IF ref THEN [returned |-> "running"] @@ idle
        ELSE IF last = ParamsKey(data) THEN [returned |-> "same key"] @@ idle
        ELSE [returned |-> "started", loadingForecastsRef |-> TRUE,
              lastForecastParamsRef |-> ParamsKey(data),
              forecastPasses |-> Append(passes, NewPass(data))]

\* loadAnomalies() of the render that saw `data`, up to its first await
loadAnomalies(data, ref, last, passes) ==
    LET idle == [started |-> FALSE, loadingAnomaliesRef |-> ref,
                 lastAnomalyParamsRef |-> last, anomalyPasses |-> passes]
    IN  IF SensorIds(data) = <<>> \/ ParametersOf(data) = <<>> THEN idle
        ELSE IF ref THEN idle
        ELSE IF last = ParamsKey(data) THEN idle
        ELSE [started |-> TRUE, loadingAnomaliesRef |-> TRUE,
              lastAnomalyParamsRef |-> ParamsKey(data),
              anomalyPasses |-> Append(passes, NewPass(data))]

\* a call of loadData(), by the effect at mount or by handleSensorData at a
\* push of the WebSocket: setLoading(true), and the two fetches are sent
LoadDataStarts ==
    /\ Len(calls) < MaxCalls
    /\ calls' = Append(calls, [pending |-> TRUE])
    /\ loading' = TRUE
    /\ UNCHANGED <<latestData, lastSettle>>
    /\ UNCHANGED <<forecastVars, anomalyVars, trainingVars>>
    /\ UNCHANGED <<pipelineVars, wsVars>>

\* Promise.all of the call `call` settles and loadData runs to its end:
\* setSensorData, setLatestData, setLoading(false).  The tab renders and its
\* effect calls loadForecasts() and loadAnomalies() of that render; the test
\* `parameters.length > 0` of the effect is the first test of both
LoadDataSettles(call, data, latest) ==
    LET out == loadData(data, latest)
        f == loadForecasts(out.sensorData, loadingForecastsRef,
                           lastForecastParamsRef, forecastPasses)
        a == loadAnomalies(out.sensorData, loadingAnomaliesRef,
                           lastAnomalyParamsRef, anomalyPasses)
    IN  /\ call \in 1..Len(calls)
        /\ calls[call].pending
        /\ calls' = [calls EXCEPT ![call] =
                        [pending |-> FALSE, failed |-> out.failed,
                         sensorData |-> out.sensorData,
                         latestData |-> out.latestData]]
        /\ lastSettle' = [call |-> call, data |-> data, latest |-> latest,
                          loadForecasts |-> f.returned]
        /\ sensorData' = out.sensorData
        /\ latestData' = out.latestData
        /\ loading' = FALSE
        /\ loadingForecastsRef' = f.loadingForecastsRef
        /\ lastForecastParamsRef' = f.lastForecastParamsRef
        /\ forecastPasses' = f.forecastPasses
        /\ loadingAnomaliesRef' = a.loadingAnomaliesRef
        /\ lastAnomalyParamsRef' = a.lastAnomalyParamsRef
        /\ anomalyPasses' = a.anomalyPasses
        /\ UNCHANGED <<forecasts, anomalies, trainingVars>>
        /\ UNCHANGED <<caller, dataByParameter, parameters, stats, insights, pc, outputs>>
        /\ UNCHANGED wsVars

\* the request the pass `p` of loadForecasts awaits settles: with a
\* "forecast", with a result that holds "none", or with an "error" that is
\* caught; the loop goes on, or the pass ends with setForecasts and the ref
\* is cleared
ForecastRequestSettles(p, outcome) ==
    /\ p \in 1..Len(forecastPasses)
    /\ LET pass == forecastPasses[p]
           got == IF outcome = "forecast" THEN pass.got \cup {Head(pass.todo)}
                  ELSE pass.got
       IN  IF Len(pass.todo) > 1
           THEN /\ forecastPasses' =
                       [forecastPasses EXCEPT ![p] = [todo |-> Tail(pass.todo),
                                                      got |-> got]]
                /\ UNCHANGED <<loadingForecastsRef, forecasts>>
           ELSE /\ forecastPasses' = Without(forecastPasses, p)
                /\ loadingForecastsRef' = FALSE
                /\ forecasts' = got
    /\ UNCHANGED <<lastForecastParamsRef, loadVars, anomalyVars, trainingVars>>
    /\ UNCHANGED <<pipelineVars, wsVars>>

\* the request the pass `p` of loadAnomalies awaits settles: a result with
\* anomalies is kept with the model that produced it, and the loop goes on
\* or the pass ends with setAnomalies and the ref is cleared
AnomalyRequestSettles(p, ok) ==
    /\ p \in 1..Len(anomalyPasses)
    /\ LET pass == anomalyPasses[p]
           got == IF ok THEN pass.got \cup {<<Head(pass.todo), backendModel>>}
                  ELSE pass.got
       IN  IF Len(pass.todo) > 1
           THEN /\ anomalyPasses' =
                       [anomalyPasses EXCEPT ![p] = [todo |-> Tail(pass.todo),
                                                     got |-> got]]
                /\ UNCHANGED <<loadingAnomaliesRef, anomalies>>
           ELSE /\ anomalyPasses' = Without(anomalyPasses, p)
                /\ loadingAnomaliesRef' = FALSE
                /\ anomalies' = got
    /\ UNCHANGED <<lastAnomalyParamsRef, loadVars, forecastVars, trainingVars>>
    /\ UNCHANGED <<pipelineVars, wsVars>>

\* handleTrainAutoencoder(sensorId, parameter), from the button of a rendered
\* parameter: the handler and the loadAnomalies it will call are those of
\* the render that saw the present sensorData
TrainStarts(parameter) ==
    /\ \E k \in 1..Len(ParametersOf(sensorData)) : ParametersOf(sensorData)[k] = parameter
    /\ trainingStatus.status # "training"
    /\ ~retrainTimer.pending
    /\ backendModel < MaxTrainings
    /\ trainingStatus' = [status |-> "training", parameter |-> parameter,
                          data |-> sensorData]
    /\ UNCHANGED <<retrainTimer, backendModel, refetch>>
    /\ UNCHANGED <<loadVars, forecastVars, anomalyVars>>
    /\ UNCHANGED <<pipelineVars, wsVars>>

\* trainAutoencoder settles: after a success the timeout of 1 s is set
TrainSettles(ok) ==
    /\ trainingStatus.status = "training"
    /\ trainingStatus' = [trainingStatus EXCEPT
                              !.status = IF ok THEN "success" ELSE "error"]
    /\ backendModel' = IF ok THEN backendModel + 1 ELSE backendModel
    /\ retrainTimer' = IF ok THEN [pending |-> TRUE, data |-> trainingStatus.data]
                       ELSE retrainTimer
    /\ UNCHANGED refetch
    /\ UNCHANGED <<loadVars, forecastVars, anomalyVars>>
    /\ UNCHANGED <<pipelineVars, wsVars>>

\* the callback of the timeout: loadAnomalies()
RetrainTimeout ==
    LET a == loadAnomalies(retrainTimer.data, loadingAnomaliesRef,
                           lastAnomalyParamsRef, anomalyPasses)
    IN  /\ retrainTimer.pending
        /\ retrainTimer' = NoTimer
        /\ loadingAnomaliesRef' = a.loadingAnomaliesRef
        /\ lastAnomalyParamsRef' = a.lastAnomalyParamsRef
        /\ anomalyPasses' = a.anomalyPasses
        /\ refetch' = IF a.started THEN "fetched"
                      ELSE IF loadingAnomaliesRef THEN "busy" ELSE "skipped"
        /\ UNCHANGED <<anomalies, trainingStatus, backendModel>>
        /\ UNCHANGED <<loadVars, forecastVars>>
        /\ UNCHANGED <<pipelineVars, wsVars>>

TabInit == PipelineAtRest /\ WsConstructed /\ TabMounted

\* the loaders and the training, after loadData calls that are answered with
\* bare arrays (a failed call leaves the loaders what an empty array does)
TabNext ==
    \/ LoadDataStarts
    \/ \E call \in 1..MaxCalls, data \in ArrayResponses :
           LoadDataSettles(call, data, ArrayOf(<<>>))
    \/ \E p \in 1..MaxCalls, outcome \in {"forecast", "none", "error"} :
           ForecastRequestSettles(p, outcome)
    \/ \E p \in 1..(MaxCalls + MaxTrainings), ok \in BOOLEAN :
           AnomalyRequestSettles(p, ok)
    \/ \E parameter \in {"temperature", "humidity"} : TrainStarts(parameter)
    \/ \E ok \in BOOLEAN : TrainSettles(ok)
    \/ RetrainTimeout

TabSpec == TabInit /\ [][TabNext]_vars

\* the loadData calls alone, answered with every shape of response
LoadNext ==
    \/ LoadDataStarts
    \/ \E call \in 1..MaxCalls, responses \in LoadResponses :
           LoadDataSettles(call, responses[1], responses[2])

LoadSpec == TabInit /\ [][LoadNext]_vars

(***************************************************************************)
(* Properties.                                                             *)
(***************************************************************************)
\* the callbacks of the map that have run, and the series each was given
Mapped == 1..Len(stats)
SeriesAt(i) == SeriesOf(dataByParameter, ParameterList[i])
\* the Numbers of a series whose value coerces to a finite number
FiniteAt(i) ==
    LET coerced == [j \in 1..Len(SeriesAt(i)) |-> Number(SeriesAt(i)[j].value)]
        RECURSIVE Keep(_)
        Keep(j) == IF j > Len(coerced) THEN <<>>
                   ELSE IF coerced[j].k = "number" THEN <<coerced[j].n>> \o Keep(j + 1)
                   ELSE Keep(j + 1)
    IN  Keep(1)
InSeq(x, seq) == \E j \in 1..Len(seq) : seq[j] = x

\* C1: the trend of every series is the last finite value minus the value at
\* the start of the window of the last N = min(8, count) finite values, and
\* the trend of the series 1, 2, ..., 10 is 7
C1_TrendOverLastWindow ==
    \A i \in Mapped :
        ~stats[i].isNull =>
            LET values == FiniteAt(i)
                count == Len(values)
                N == IF count < 8 THEN count ELSE 8
            IN  /\ stats[i].trend = FSub(values[count], values[count - N + 1])
                /\ (SeriesAt(i) = Series1to10 => stats[i].trend = Int2Num(7))

\* C2: computeStats returns null exactly when the series is empty or absent
\* or no reading has a value that coerces to a finite number; otherwise it
\* returns a Statistics record, and it does not throw on a series of readings
C2_NullExactlyWithoutFiniteValue ==
    /\ \A i \in Mapped :
           stats[i].isNull <=>
               \A j \in 1..Len(SeriesAt(i)) :
                   Number(SeriesAt(i)[j].value).k \in {"NaN", "Infinity"}
    /\ (pc = "threw" /\ Len(stats) < Len(ParameterList) =>
           ~HasOwn(dataByParameter, ParameterList[Len(stats) + 1]))
    /\ (pc = "done" => Len(stats) = Len(ParameterList))

\* a null Statistics came from a series that has readings, none finite
C2_Witness ==
    \E i \in Mapped :
        stats[i].isNull /\ Len(SeriesAt(i)) = 2 /\ SeriesAt(i)[1].value = JsInfinity

\* a reading carries a parameter when the field is present and not empty
CarriesParameter(r) == r.parameter \notin {Undefined, ""}

\* C3: once the Grouper has run, the groups are exactly the readings that
\* carry a parameter: every such reading is in the group keyed by its
\* parameter, in input order, and there is no other group and no other entry
C3_GroupsPartitionInput ==
    (caller = "DashboardTab" /\ pc # "dataByParameter") =>
        /\ dataByParameter.defined
        /\ DOMAIN dataByParameter.get =
               {sensorData[j].parameter :
                    j \in {k \in 1..Len(sensorData) : CarriesParameter(sensorData[k])}}
        /\ \A p \in DOMAIN dataByParameter.get :
               dataByParameter.get[p] =
                   SelectSeq(sensorData, LAMBDA r : r.parameter = p)

\* C4: a series whose finite values are all the same v has avg = min = max = v
\* and trend = 0
AllSame(values) == \A j \in 1..Len(values) : values[j] = values[1]
C4_IdenticalValues ==
    \A i \in Mapped :
        (~stats[i].isNull /\ AllSame(FiniteAt(i))) =>
            /\ stats[i].avg = FiniteAt(i)[1]
            /\ stats[i].min = FiniteAt(i)[1]
            /\ stats[i].max = FiniteAt(i)[1]
            /\ stats[i].trend = 0

\* the sum of the values in exact arithmetic, and whether the Number sum
\* computed left to right is that exact sum
RECURSIVE ExactSum(_)
ExactSum(values) ==
    IF values = <<>> THEN 0 ELSE Head(values) + ExactSum(Tail(values))
RECURSIVE NumberSum(_, _)
NumberSum(acc, values) ==
    IF values = <<>> THEN acc
    ELSE NumberSum(RoundRat(acc + Head(values), 1), Tail(values))
SumIsExact(values) == NumberSum(0, values) = ExactSum(values)

\* C4 as amended: min = max = v and trend = 0 always, and avg = v when the
\* Number sum of the values is exact
C4_IdenticalValuesExactSum ==
    \A i \in Mapped :
        (~stats[i].isNull /\ AllSame(FiniteAt(i))) =>
            /\ SumIsExact(FiniteAt(i)) => stats[i].avg = FiniteAt(i)[1]
            /\ stats[i].min = FiniteAt(i)[1]
            /\ stats[i].max = FiniteAt(i)[1]
            /\ stats[i].trend = 0

\* three readings of the same non-zero value, summed exactly
C4_Witness ==
    \E i \in Mapped :
        /\ ~stats[i].isNull
        /\ Len(FiniteAt(i)) = 3 /\ AllSame(FiniteAt(i)) /\ FiniteAt(i)[1] = Int2Num(-2)
        /\ SumIsExact(FiniteAt(i))
        /\ stats[i].avg = Int2Num(-2)


\* what C5 says whether or not rounding is taken into account: min and max
\* are the least and greatest finite values, and avg is the Number quotient
\* of the Number sum of the finite values by their count
OverFiniteSubset(i) ==
    LET values == FiniteAt(i)
    IN  /\ InSeq(stats[i].min, values)
        /\ InSeq(stats[i].max, values)
        /\ \A j \in 1..Len(values) : stats[i].min <= values[j] /\ values[j] <= stats[i].max
        /\ stats[i].avg = RoundRat(NumberSum(0, values), Len(values))

\* C5: avg, min and max are taken over the finite values only, min and max
\* are members of them, and min <= avg <= max
C5_AvgBetweenMinAndMax ==
    \A i \in Mapped :
        ~stats[i].isNull =>
            /\ OverFiniteSubset(i)
            /\ stats[i].min <= stats[i].avg
            /\ stats[i].avg <= stats[i].max

\* C5 as amended: min <= avg <= max is claimed only when the Number sum of
\* the finite values is exact
C5_AvgBetweenMinAndMaxExactSum ==
    \A i \in Mapped :
        ~stats[i].isNull =>
            /\ OverFiniteSubset(i)
            /\ SumIsExact(FiniteAt(i)) =>
                   stats[i].min <= stats[i].avg /\ stats[i].avg <= stats[i].max

\* a series with a non-finite reading between two different finite ones
C5_Witness ==
    \E i \in Mapped :
        /\ ~stats[i].isNull
        /\ Len(SeriesAt(i)) = 3 /\ Len(FiniteAt(i)) = 2
        /\ SumIsExact(FiniteAt(i))
        /\ stats[i].min < stats[i].avg /\ stats[i].avg < stats[i].max

HasRecommendation(i, text) == InSeq(text, insights[i].recommendations)

\* C6: the recommendations of a non-null Statistics contain the run-of-
\* anomalies text exactly when anomaliesCount > 2, whatever trend and avg are
C6_AnomalyRunRecommendation ==
    \A i \in Mapped :
        ~stats[i].isNull =>
            (HasRecommendation(i, AnomalyRunText) <=> stats[i].anomaliesCount > 2)

\* three anomalies and no significant trend
C6_Witness ==
    \E i \in Mapped :
        /\ ~stats[i].isNull
        /\ stats[i].anomaliesCount = 3
        /\ insights[i].recommendations = <<AnomalyRunText>>

\* abs(trend) > 0.1 * a, with a = avg, or 1 when avg is zero, as Numbers
TrendIsSignificant(st) ==
    LET a == IF st.avg = 0 THEN Unit ELSE st.avg
        magnitude == IF st.trend < 0 THEN -st.trend ELSE st.trend
    IN  magnitude > RoundRat(a * Tenth, Unit)

\* C7: the significant-trend text is present exactly when
\* abs(trend) > 0.1 * a, for every sign of avg and trend
C7_TrendRecommendation ==
    \A i \in Mapped :
        ~stats[i].isNull =>
            (HasRecommendation(i, TrendText) <=> TrendIsSignificant(stats[i]))

\* avg is zero, the trend is not, and the text is present
C7_Witness ==
    \E i \in Mapped :
        /\ ~stats[i].isNull
        /\ stats[i].avg = 0 /\ stats[i].trend < 0
        /\ HasRecommendation(i, TrendText)

\* C8: the recommendations of a non-null Statistics are the run-of-anomalies
\* text if rule 1 matched, then the significant-trend text if rule 2 matched,
\* and the fallback text alone if neither matched
C8_RecommendationList ==
    \A i \in Mapped :
        ~stats[i].isNull =>
            LET rule1 == stats[i].anomaliesCount > 2
                rule2 == TrendIsSignificant(stats[i])
            IN  insights[i].recommendations =
                    IF rule1 /\ rule2 THEN <<AnomalyRunText, TrendText>>
                    ELSE IF rule1 THEN <<AnomalyRunText>>
                    ELSE IF rule2 THEN <<TrendText>>
                    ELSE <<NoDeviationText>>

\* both rules matched
C8_Witness ==
    \E i \in Mapped :
        /\ ~stats[i].isNull
        /\ stats[i].anomaliesCount > 2 /\ TrendIsSignificant(stats[i])
        /\ Len(insights[i].recommendations) = 2

\* C9: a parameter whose Statistics is null gets the fixed no-data text and
\* the awaiting-data text as its only recommendation
C9_NoDataInsight ==
    \A i \in Mapped :
        stats[i].isNull =>
            /\ insights[i].param = ParameterList[i]
            /\ insights[i].text = <<NoDataText>>
            /\ insights[i].recommendations = <<AwaitDataText>>

\* a null Statistics next to a parameter that has one
C9_Witness ==
    /\ caller = "DashboardTab"
    /\ \E i, j \in Mapped : stats[i].isNull /\ ~stats[j].isNull

\* C10: anomaliesCount is the number of readings of the series whose
\* is_anomaly is true, finite value or not
C10_AnomaliesCount ==
    \A i \in Mapped :
        ~stats[i].isNull =>
            stats[i].anomaliesCount =
                Cardinality({j \in 1..Len(SeriesAt(i)) :
                                 SeriesAt(i)[j].is_anomaly = JsBool(TRUE)})

\* an anomaly on a reading whose value is not finite is counted
C10_Witness ==
    \E i \in Mapped :
        /\ ~stats[i].isNull
        /\ stats[i].anomaliesCount = 1
        /\ \E j \in 1..Len(SeriesAt(i)) :
               /\ SeriesAt(i)[j].is_anomaly = JsBool(TRUE)
               /\ Number(SeriesAt(i)[j].value).k = "NaN"


\* C11: latest is the last reading of the series in arrival order, whatever
\* the timestamps of the readings are
C11_LatestIsLastArrived ==
    \A i \in Mapped :
        ~stats[i].isNull => stats[i].latest = SeriesAt(i)[Len(SeriesAt(i))]

\* the last reading is older than an earlier one, and its value is not finite
C11_Witness ==
    \E i \in Mapped :
        /\ ~stats[i].isNull
        /\ stats[i].latest.timestamp = 1
        /\ stats[i].latest.value = JsStr(<<"x">>)
        /\ SeriesAt(i)[1].timestamp = 2

\* C12: the direction label of the text is the rising label when trend > 0,
\* the falling label when trend < 0 and the stable label when trend = 0
C12_DirectionLabel ==
    \A i \in Mapped :
        ~stats[i].isNull =>
            /\ stats[i].trend > 0 => insights[i].text[4] = RisingLabel
            /\ stats[i].trend < 0 => insights[i].text[4] = FallingLabel
            /\ stats[i].trend = 0 => insights[i].text[4] = StableLabel
            /\ insights[i].text[2] = ParameterList[i]

\* a series of several different values whose trend is zero
C12_Witness ==
    \E i \in Mapped :
        /\ ~stats[i].isNull
        /\ stats[i].trend = 0 /\ stats[i].min < stats[i].max
        /\ insights[i].text[4] = StableLabel

\* C13: every run of the pipeline on the same input returns the same insights
C13_SameInputSameOutput ==
    \A i, j \in 1..Len(outputs) : outputs[i] = outputs[j]

\* two renders of the tab have returned the insight of a series with a run of
\* anomalies and a significant trend
C13_Witness ==
    /\ caller = "DashboardTab"
    /\ Len(outputs) = 2
    /\ Len(outputs[2]) = 1
    /\ outputs[2][1].recommendations = <<AnomalyRunText, TrendText>>


\* the readings of the input that carry parameter p, in arrival order
ReadingsOf(p) == SelectSeq(sensorData, LAMBDA r : r.parameter = p)

\* C14: the Insight of a parameter p is a function of the readings of p
\* alone: once the render of the tab has ended, the Insight of every ordinary
\* parameter name of the input is the one its own readings determine,
\* whatever the readings of the other parameters are
C14_InsightDependsOnOwnReadings ==
    (caller = "DashboardTab" /\ pc \in {"done", "threw"}) =>
        \A k \in 1..Len(sensorData) :
            LET p == sensorData[k].parameter
            IN  (CarriesParameter(sensorData[k]) /\ p \notin DOMAIN ObjectPrototype) =>
                    \E i \in 1..Len(insights) :
                        insights[i] = InsightOf(p, computeStats(ReadingsOf(p)))

\* C15: a call of the hook that has ended returned one Insight per entry of
\* the parameters list, in the order of the list and with the entry as param;
\* an entry without a series in dataByParameter has the no-data Insight, and
\* a missing list gives no Insight
C15_OneInsightPerParameter ==
    (pc = "done" \/ (pc = "threw" /\ caller = "other")) =>
        /\ Len(insights) = Len(ParameterList)
        /\ \A i \in 1..Len(insights) :
               /\ insights[i].param = ParameterList[i]
               /\ ~(dataByParameter.defined /\ HasOwn(dataByParameter, ParameterList[i])) =>
                      insights[i].text = <<NoDataText>>
        /\ ~parameters.defined => insights = <<>>

\* C16: a relayed 'sensor_data' event whose sensor_type is the one the tab is
\* mounted for makes the tab reload, through the handler of its current
\* effect; an event of another type makes no reload; and no handler of an
\* effect that was cleaned up is invoked
C16_RelayReloadsMountedTab ==
    relay.relayed =>
        /\ relay.tab.sensorType = relay.sensor_type =>
               relay.loads = <<relay.tab.handler>>
        /\ relay.tab.sensorType # relay.sensor_type => relay.loads = <<>>
        /\ \A k \in 1..Len(relay.invoked) : relay.invoked[k] = relay.tab.handler

\* C17: for every subscribe() call made while the socket was not connected,
\* once a 'connect' event has followed, exactly one message was sent, at the
\* first 'connect' after the call
C17_PendingSubscribeSentOnce ==
    \A k \in 1..Len(subscribed) :
        (subscribed[k].pending /\ subscribed[k].connectsSince >= 1) =>
            subscribed[k].sent = <<1>>

\* the sockets that have handlers of the service attached
HandlerSockets == {i \in Sockets : sockets[i].handlers}

\* a socket is connected, an attempt is in progress or reconnection is disabled
ConnectReturnsEarly ==
    Connected(sockets, socket) \/ isConnecting \/ reconnectionDisabled

FreshAttempt ==
    /\ socket' = Len(sockets) + 1
    /\ sockets'[socket'] = NewSocket
    /\ isConnecting'

\* C20: while reconnectAttempts is at maxReconnectAttempts or above,
\* reconnection is disabled (the flag of the service and the option of the
\* Manager) and exactly one retry timeout is pending; the callback of the
\* timeout resets reconnectionDisabled and reconnectAttempts and starts a
\* fresh attempt; a 'connect' event resets reconnectAttempts and leaves no
\* timeout pending
C20_RetryAfterMaxAttempts ==
    /\ [](reconnectAttempts >= maxReconnectAttempts =>
             /\ reconnectionDisabled
             /\ ~sockets[socket].reconnection
             /\ timers = 1 /\ connectTimeout = "pending")
    /\ [][RetryTimeout =>
             ~reconnectionDisabled' /\ reconnectAttempts' = 0 /\ FreshAttempt]_vars
    /\ [][(\E i \in Sockets : SocketConnect(i)) =>
             reconnectAttempts' = 0 /\ timers' = 0 /\ connectTimeout' = "null"]_vars

\* the callback of the retry timeout leaves an attempt in progress on a new
\* socket: the one it starts, or the one a call of connect() had started
AttemptInProgress ==
    /\ IF isConnecting THEN UNCHANGED <<socket, sockets>> ELSE FreshAttempt
    /\ isConnecting'
    /\ sockets'[socket'] = NewSocket

\* C20, amended: as C20, but the callback of the timeout starts the fresh
\* attempt unless a call of connect() has one in progress already, which it
\* leaves running
C20_RetryAfterMaxAttemptsUnlessConnecting ==
    /\ [](reconnectAttempts >= maxReconnectAttempts =>
             /\ reconnectionDisabled
             /\ ~sockets[socket].reconnection
             /\ timers = 1 /\ connectTimeout = "pending")
    /\ [][RetryTimeout =>
             ~reconnectionDisabled' /\ reconnectAttempts' = 0 /\ AttemptInProgress]_vars
    /\ [][(\E i \in Sockets : SocketConnect(i)) =>
             reconnectAttempts' = 0 /\ timers' = 0 /\ connectTimeout' = "null"]_vars

\* the timeout set at the fifth connect_error has fired and has replaced the
\* socket that failed by a new one
C20_Witness ==
    /\ connectTimeout = "fired" /\ timers = 0
    /\ reconnectAttempts = 0 /\ ~reconnectionDisabled
    /\ socket = 2 /\ isConnecting /\ sockets[2] = NewSocket
    /\ ~sockets[1].reconnection /\ sockets[1].phase = "closed"

\* C18: the callback of the timeout set after a successful training starts
\* a pass of anomaly requests, unless a pass is running when it is called
C18_RefetchAfterTraining == refetch # "skipped"


\* C21: the trend of every series is the last finite value minus the first
\* finite value of the whole series in arrival order, whatever the length of
\* the series: neither the window size N = min(8, count) nor the timestamps
\* of the readings enter the result
C21_TrendIsLastMinusFirst ==
    \A i \in Mapped :
        ~stats[i].isNull =>
            LET values == FiniteAt(i)
            IN  stats[i].trend = FSub(values[Len(values)], values[1])

\* a series of more than 8 finite values whose first value is not the value
\* at the start of the window of the last 8
C21_Witness ==
    \E i \in Mapped :
        /\ ~stats[i].isNull
        /\ Len(FiniteAt(i)) > WindowSize
        /\ FiniteAt(i)[1] # FiniteAt(i)[Len(FiniteAt(i)) - WindowSize + 1]
        /\ stats[i].trend = FSub(FiniteAt(i)[Len(FiniteAt(i))], FiniteAt(i)[1])

\* C27: whenever reconnection is disabled, the retry timeout that enables it
\* again is pending, and its callback enables reconnection
C27_DisabledHasPendingRetry ==
    /\ [](reconnectionDisabled => (timers >= 1 /\ connectTimeout = "pending"))
    /\ [][RetryTimeout => ~reconnectionDisabled']_vars

\* the Manager has used its five reconnection attempts after the first
\* failure: six connect_error events and 'reconnect_failed' have been handled
C27_Witness ==
    /\ reconnectionDisabled
    /\ timers = 1 /\ connectTimeout = "pending"
    /\ reconnectAttempts > maxReconnectAttempts
    /\ sockets[socket].phase = "idle"
    /\ sockets[socket].attempts >= maxReconnectAttempts

\* the callbacks registered for an event when emit is called
Registered(event) == IF event \in DOMAIN listeners THEN listeners[event] ELSE <<>>

\* C28: every emit of the service ('connect' relayed by the 'connect'
\* handler, 'sensor_data' relayed by the 'sensor_data' handler) calls the
\* callbacks registered for the event when it begins, once each and in the
\* order of their registration, also when a callback calls off() meanwhile
C28_EmitCallsEveryRegistered ==
    [][\A i \in Sockets :
          /\ SocketConnect(i) =>
                 Emit(World, "connect", "(undefined)", socket = i).called
                     = Registered("connect")
          /\ \A t \in SensorTypes :
                 SensorData(i, t) =>
                     Emit(World, "sensor_data", t, socket = i).called
                         = Registered("sensor_data")]_vars

\* a loadData call ends in this step
LoadDataEnds == lastSettle' # lastSettle

\* C22: once every loadData call of the tab has ended, none of them by a
\* failed fetch, the sensorData and the latestData of the tab are those of
\* the call that began last, in whatever order the calls ended
C22_LastStartedCallWins ==
    (calls # <<>> /\ \A k \in 1..Len(calls) : ~calls[k].pending /\ ~calls[k].failed) =>
        /\ sensorData = calls[Len(calls)].sensorData
        /\ latestData = calls[Len(calls)].latestData

\* C23: at most one pass of loadForecasts and at most one pass of
\* loadAnomalies is in progress, the ref of a loader is set exactly while
\* its pass is in progress (so it is cleared when the pass ends, whatever
\* its requests came to), and a call of a loader that finds its ref set
\* starts no pass
C23_OnePassAtATime ==
    /\ [](/\ Len(forecastPasses) <= 1
          /\ Len(anomalyPasses) <= 1
          /\ loadingForecastsRef <=> forecastPasses # <<>>
          /\ loadingAnomaliesRef <=> anomalyPasses # <<>>)
    /\ [][/\ (loadingForecastsRef /\ LoadDataEnds) =>
                  forecastPasses' = forecastPasses
          /\ (loadingAnomaliesRef /\ (LoadDataEnds \/ RetrainTimeout)) =>
                  anomalyPasses' = anomalyPasses]_vars

\* the last loadData call brought other parameters while the pass of the
\* forecasts of the call before was in progress: its loadForecasts started
\* nothing, and the pass has ended with no forecast and the ref cleared
C23_Witness ==
    /\ lastSettle.call # 0
    /\ lastSettle.loadForecasts = "running"
    /\ lastForecastParamsRef # ParamsKey(sensorData)
    /\ forecastPasses = <<>> /\ ~loadingForecastsRef
    /\ forecasts = {}

\* C24: the loadForecasts call of a render starts requests only when its
\* key is not the key of the pass started last, and a call with that key
\* starts no request and leaves the forecasts and the refs as they are
C24_SameKeyNoRequests ==
    [][LoadDataEnds =>
          LET key == ParamsKey(sensorData')
          IN  /\ forecastPasses' # forecastPasses => key # lastForecastParamsRef
              /\ key = lastForecastParamsRef =>
                     UNCHANGED <<forecastPasses, forecasts, loadingForecastsRef,
                                 lastForecastParamsRef>>]_vars

\* a loadData call has brought the parameters of the pass before, every
\* request of which had failed: no pass was started and no forecast is held
C24_Witness ==
    /\ lastSettle.call # 0
    /\ lastSettle.loadForecasts = "same key"
    /\ lastForecastParamsRef = ParamsKey(sensorData)
    /\ forecastPasses = <<>> /\ ~loadingForecastsRef
    /\ forecasts = {}

\* the first of the candidates that is an array, the empty array when none
\* of them is
FirstArray(candidates) ==
    IF \E i \in 1..Len(candidates) : IsArray(candidates[i])
    THEN candidates[CHOOSE i \in 1..Len(candidates) :
                        /\ IsArray(candidates[i])
                        /\ \A j \in 1..(i - 1) : ~IsArray(candidates[j])].items
    ELSE <<>>

C26_FailedFetchEmptiesBoth ==
    [][(LoadDataEnds /\ (lastSettle'.data = Rejected \/ lastSettle'.latest = Rejected)) =>
          /\ sensorData' = <<>>
          /\ latestData' = <<>>
          /\ ~loading'
          /\ ~calls'[lastSettle'.call].pending
          /\ InsightsOf(sensorData') = <<>>]_vars

\* the second call failed at its latest values only, after the first call
\* had loaded readings: both arrays are empty
C26_Witness ==
    /\ Len(calls) = 2
    /\ ~calls[1].pending /\ ~calls[1].failed /\ calls[1].sensorData # <<>>
    /\ lastSettle.call = 2
    /\ lastSettle.data # Rejected /\ lastSettle.latest = Rejected
    /\ calls[2].failed
    /\ sensorData = <<>> /\ latestData = <<>> /\ ~loading

=============================================================================
